---- MODULE Spec2Model ----
(***************************************************************************)
(* ScriptEval (examples/python/FullScriptSupport/ScriptEval_script.py):    *)
(* the EvaluateScript generator and its helpers, as a state machine.       *)
(*                                                                         *)
(* One invocation at a time runs through                                   *)
(*   start -> collect -> invoke -> encode -> yield -> suspended -> done    *)
(* (or failed, from any step that raises); the process then serves the     *)
(* next invocation.  The only object that outlives an invocation is the    *)
(* list bound to the default value of evaluate's `params` parameter.       *)
(*                                                                         *)
(* Python values are tagged records [t, v]: t is the Python type, v the    *)
(* contents (an identifying number for a scalar, the elements for a list   *)
(* or tuple).  The code never inspects a scalar's contents, so every       *)
(* input scalar carries a distinct identifying number: that shows where    *)
(* each value of an output came from.  Input strings are one character     *)
(* long, so that iterating one yields the string itself.                   *)
(*                                                                         *)
(* get_func_type (lines 68-81) feeds the log line alone and has no state   *)
(* here.  Invocations run one after another: the default list is touched   *)
(* only inside eval, so what one invocation can see of another is decided  *)
(* by the order of the eval calls.                                         *)
(***************************************************************************)
EXTENDS Integers, Sequences, FiniteSets, TLC

\* ------------------------------------------------------------- bounds
MaxParams == 2
MaxBatches == 2
MaxBatchRows == 2
MaxShared == 1
MaxResultRows == 2
MaxResultCols == 2

\* ------------------------------------------------------ Python values
Str(i) == [t |-> "str", v |-> i]
Num(i) == [t |-> "num", v |-> i]
List(s) == [t |-> "list", v |-> s]
Tuple(s) == [t |-> "tuple", v |-> s]
Raise(e) == [t |-> "error", v |-> e]
Unbound == [t |-> "unbound", v |-> 0]

IsError(x) == x.t = "error"

\* isinstance(result, str) or not hasattr(result, '__iter__')
IsSingle(x) == x.t = "str" \/ x.t \notin {"list", "tuple"}

\* What iterating a value yields; a number is not iterable.
CanIter(x) == x.t \in {"list", "tuple", "str"}
Iter(x) == IF x.t = "str" THEN (IF x.v = 0 THEN <<>> ELSE <<x>>) ELSE x.v

Min(S) == CHOOSE m \in S : \A n \in S : m <= n

\* zip(*xs): tuples of the k-th elements, as many as the shortest has.
ZipStar(xs) ==
  IF \E j \in 1..Len(xs) : ~CanIter(xs[j]) THEN Raise("TypeError")
  ELSE LET n == IF xs = <<>> THEN 0
                ELSE Min({Len(Iter(xs[j])) : j \in 1..Len(xs)})
       IN List([k \in 1..n |-> Tuple([j \in 1..Len(xs) |-> Iter(xs[j])[k]])])

\* [list(x) for x in zip(*xs)]
ZipLists(xs) ==
  LET z == ZipStar(xs)
  IN IF IsError(z) THEN z
     ELSE List([k \in 1..Len(z.v) |-> List(z.v[k].v)])

\* ------------------------------------------------------------ the wire
\* SSE.DataType is an open protobuf enum: a header may carry a value
\* outside the three declared ones.
Kinds == {"STRING", "NUMERIC", "DUAL"}
WireKinds == Kinds \cup {"UNRECOGNIZED"}

\* proto3 defaults of SSE.Dual: numData 0, strData "".
DefaultDual == [numData |-> Num(0), strData |-> Str(0)]

\* The dual at parameter position i of the m-th row received.
InputDual(m, i) == [numData |-> Num(10 * m + i), strData |-> Str(10 * m + i)]
InputRow(m, n) == [i \in 1..n |-> InputDual(m, i)]

\* ---------------------------------------------------- type resolution
\* get_arg_types without the all-Dual test of line 132.
get_arg_types_no_dual(params) ==
  LET distinct == {params[i] : i \in 1..Len(params)}
  IN IF params = <<>> THEN "Empty"
     ELSE IF Cardinality(distinct) > 1 THEN "Mixed"
     ELSE IF \A i \in 1..Len(params) : params[i] = "STRING" THEN "String"
     ELSE IF \A i \in 1..Len(params) : params[i] = "NUMERIC" THEN "Numeric"
     ELSE "Undefined"

get_arg_types(params) ==
  LET data_types == params
      distinct == {data_types[i] : i \in 1..Len(data_types)}
  IN IF data_types = <<>> THEN "Empty"
     ELSE IF Cardinality(distinct) > 1
             \/ \A i \in 1..Len(data_types) : data_types[i] = "DUAL"
       THEN "Mixed"
     ELSE IF \A i \in 1..Len(data_types) : data_types[i] = "STRING"
       THEN "String"
     ELSE IF \A i \in 1..Len(data_types) : data_types[i] = "NUMERIC"
       THEN "Numeric"
     ELSE "Undefined"

get_return_type(returnType) ==
  IF returnType = "STRING" THEN "String"
  ELSE IF returnType = "NUMERIC" THEN "Numeric"
  ELSE IF returnType = "DUAL" THEN "Dual"
  ELSE "Undefined"

\* ------------------------------------------------ argument extraction
\* The Mixed branch: for dual, param in zip(duals, header.params).
RECURSIVE MixedArgs(_, _)
MixedArgs(duals, params) ==
  IF duals = <<>> \/ params = <<>> THEN <<>>
  ELSE LET dual == Head(duals)
           one == IF Head(params) = "STRING" THEN <<dual.strData>>
                  ELSE IF Head(params) = "NUMERIC" THEN <<dual.numData>>
                  ELSE IF Head(params) = "DUAL"
                    THEN <<Tuple(<<dual.numData, dual.strData>>)>>
                  ELSE <<>>
       IN one \o MixedArgs(Tail(duals), Tail(params))

\* str.format: every "{}" piece of the template is replaced by the
\* rendering of the argument, every other piece is kept.
Render(arg_types) == "ArgType." \o arg_types
Format(template, arg) ==
  [k \in 1..Len(template) |->
     IF template[k] = "{}" THEN Render(arg) ELSE template[k]]

UndefinedMsg(arg_types) == Format(<<"Undefined argument type: ">>, arg_types)

\* The value get_arguments returns, or the fault it raises.
get_arguments(arg_types, duals, params) ==
  IF arg_types = "String"
    THEN List([i \in 1..Len(duals) |-> duals[i].strData])
  ELSE IF arg_types = "Numeric"
    THEN List([i \in 1..Len(duals) |-> duals[i].numData])
  ELSE IF arg_types = "Mixed"
    THEN List(MixedArgs(duals, params))
  ELSE Raise("RpcError")

\* ----------------------------------------------------- result encoding
\* get_duals with `duals = []` ahead of the two branches: no return type
\* raises.
get_duals_preset(row, ret_type) ==
  LET cols == IF row.t \in {"list", "tuple"} THEN row.v ELSE <<row>>
  IN IF ret_type \in {"String", "Numeric"} /\ \E c \in 1..Len(cols) :
          cols[c].t # (IF ret_type = "String" THEN "str" ELSE "num")
       THEN Raise("TypeError")
     ELSE List([c \in 1..Len(cols) |->
                  IF ret_type = "String" THEN [numData |-> Num(0), strData |-> cols[c]]
                  ELSE IF ret_type = "Numeric" THEN [numData |-> cols[c], strData |-> Str(0)]
                  ELSE [numData |-> Num(0), strData |-> Str(0)]])

\* get_duals: the row's duals, or the fault raised while building them.
get_duals(row, ret_type) ==
  LET cols == IF IsSingle(row) THEN <<row>> ELSE row.v
  IN IF ret_type = "String"
       THEN IF \E c \in 1..Len(cols) : cols[c].t # "str"
              THEN Raise("TypeError")
              ELSE List([c \in 1..Len(cols) |->
                           [DefaultDual EXCEPT !.strData = cols[c]]])
     ELSE IF ret_type = "Numeric"
       THEN IF \E c \in 1..Len(cols) : cols[c].t # "num"
              THEN Raise("TypeError")
              ELSE List([c \in 1..Len(cols) |->
                           [DefaultDual EXCEPT !.numData = cols[c]]])
     ELSE Raise("UnboundLocalError")

\* evaluate with the branch of line 182 alone: the result is always one row.
BundleOneRow(result, ret_type) ==
  LET d == get_duals(result, ret_type)
  IN IF IsError(d) THEN d ELSE List(<<d.v>>)

\* The second half of evaluate: the BundledRows built from the result, or
\* the fault of the first row that raises.
Bundle(result, ret_type) ==
  LET rows == IF IsSingle(result) THEN <<result>> ELSE result.v
      enc == [r \in 1..Len(rows) |-> get_duals(rows[r], ret_type)]
      bad == {r \in 1..Len(rows) : IsError(enc[r])}
  IN IF bad # {} THEN enc[Min(bad)]
     ELSE List([r \in 1..Len(rows) |-> enc[r].v])

\* ----------------------------------------------------------- the script
\* The script is opaque text handed to eval; these four stand for what a
\* script can do with its one binding: return it, ignore it, change it, or
\* raise.
Scripts == {"args", "'ok'", "args.append(0) or len(args)", "1/0"}

\* eval(script, {'args': params, ...}): the value returned (or the fault
\* raised) and the contents of the list bound to args afterwards.
EvalScript(script, params) ==
  IF script = "args"
    THEN [value |-> List(params), params |-> params]
  ELSE IF script = "'ok'"
    THEN [value |-> Str(1), params |-> params]
  ELSE IF script = "args.append(0) or len(args)"
    THEN [value |-> Num(Len(params) + 1), params |-> Append(params, Num(0))]
  ELSE [value |-> Raise("ZeroDivisionError"), params |-> params]

\* -------------------------------------------------------------- state
VARIABLES
  header,          \* the function header of the invocation in progress
  pc,              \* where EvaluateScript is
  arg_types,       \* get_arg_types(header)
  ret_type,        \* get_return_type(header)
  all_rows,        \* the list all_rows: rows while collecting, columns after
  nbatches,        \* row batches taken from the request iterator
  nrows,           \* rows taken from them
  stream_ended,    \* the request iterator is exhausted
  context,         \* the gRPC context: status code and details
  error,           \* the fault the invocation raised
  args,            \* the value bound to `args` when eval was called
  result,          \* what eval returned
  bundledRows,     \* the BundledRows evaluate built
  emitted,         \* the BundledRows the generator has yielded
  default_params   \* the list that is evaluate's default for `params`

vars == <<header, pc, arg_types, ret_type, all_rows, nbatches, nrows,
          stream_ended, context, error, args, result, bundledRows, emitted,
          default_params>>

RECURSIVE SeqsUpTo(_, _)
SeqsUpTo(S, n) ==
  IF n = 0 THEN {<<>>}
  ELSE SeqsUpTo(S, n - 1) \cup
       {Append(s, x) : s \in {q \in SeqsUpTo(S, n - 1) : Len(q) = n - 1}, x \in S}

Headers ==
  [params : SeqsUpTo(WireKinds, MaxParams), returnType : WireKinds, script : Scripts]


NoContext == [code |-> "OK", details |-> <<>>]
NoError == [type |-> "none", code |-> "OK", msg |-> <<>>]

NoHeader == [params |-> <<>>, returnType |-> "STRING", script |-> "'ok'"]

\* The server is idle, and the default list is as the def statement made it.
Init ==
  /\ header = NoHeader
  /\ pc = "idle"
  /\ arg_types = "unset"
  /\ ret_type = "unset"
  /\ all_rows = <<>>
  /\ nbatches = 0
  /\ nrows = 0
  /\ stream_ended = FALSE
  /\ context = NoContext
  /\ error = NoError
  /\ args = Unbound
  /\ result = Unbound
  /\ bundledRows = <<>>
  /\ emitted = <<>>
  /\ default_params = <<>>

\* ------------------------------------------------------------ actions
\* Lines 28-39: resolve the types, then branch on header.params.
Classify ==
  /\ pc = "start"
  /\ arg_types' = get_arg_types(header.params)
  /\ ret_type' = get_return_type(header.returnType)
  /\ pc' = IF header.params # <<>> THEN "collect" ELSE "invoke"
  /\ UNCHANGED <<header, all_rows, nbatches, nrows, stream_ended, context,
                 error, args, result, bundledRows, emitted, default_params>>

\* What get_arguments leaves behind when it raises: the context's code and
\* details, and the fault.
Fault(at) ==
  LET msg == UndefinedMsg(at)
  IN [context |-> [code |-> "INVALID_ARGUMENT", details |-> msg],
      error |-> [type |-> "RpcError", code |-> "INVALID_ARGUMENT", msg |-> msg]]

\* Where the for loop of line 42 goes after a batch: on to the next one,
\* unless a row raised.
BatchLoopYieldsEach(raised) == IF raised THEN "failed" ELSE "invoke"
BatchLoop(raised) == IF raised THEN "failed" ELSE "collect"

\* Lines 42-47: the request iterator hands over one more batch, of k rows;
\* each row's arguments are appended, up to the first row that raises.
ReceiveBatch(k) ==
  /\ pc = "collect"
  /\ nbatches < MaxBatches
  /\ LET n == Len(header.params)
         params == [j \in 1..k |->
                      get_arguments(arg_types, InputRow(nrows + j, n), header.params)]
         bad == {j \in 1..k : IsError(params[j])}
         good == IF bad = {} THEN k ELSE Min(bad) - 1
     IN /\ all_rows' = all_rows \o SubSeq(params, 1, good)
        /\ nrows' = nrows + good
        /\ pc' = BatchLoop(bad # {})
        /\ IF bad = {}
             THEN UNCHANGED <<context, error>>
             ELSE /\ context' = Fault(arg_types).context
                  /\ error' = Fault(arg_types).error
  /\ nbatches' = nbatches + 1
  /\ UNCHANGED <<header, arg_types, ret_type, stream_ended, args, result,
                 bundledRows, emitted, default_params>>

\* Lines 52-59: under Mixed, every Dual-declared position i, in order, has
\* all_rows[i] replaced by its own transposition.
RECURSIVE SplitDuals(_, _, _)
SplitDuals(cols, params, i) ==
  IF i > Len(params) THEN List(cols)
  ELSE IF params[i] # "DUAL" THEN SplitDuals(cols, params, i + 1)
  ELSE IF i > Len(cols) THEN Raise("IndexError")
  ELSE LET z == IF CanIter(cols[i]) THEN ZipLists(Iter(cols[i]))
                ELSE Raise("TypeError")
       IN IF IsError(z) THEN z
          ELSE SplitDuals([cols EXCEPT ![i] = z], params, i + 1)

\* Lines 50-59: rows to columns, then the split of the Dual columns.
Transposed(rows, params, at) ==
  LET cols == ZipLists(rows)
  IN IF at = "Mixed" THEN SplitDuals(cols.v, params, 1) ELSE cols

\* Line 42 ends (the request iterator is exhausted), then lines 50-59.
Transpose ==
  /\ pc = "collect"
  /\ stream_ended' = TRUE
  /\ LET t == Transposed(all_rows, header.params, arg_types)
     IN IF IsError(t)
          THEN /\ pc' = "failed"
               /\ error' = [type |-> t.v, code |-> "UNKNOWN", msg |-> <<>>]
               /\ UNCHANGED all_rows
          ELSE /\ pc' = "invoke"
               /\ all_rows' = t.v
               /\ UNCHANGED error
  /\ UNCHANGED <<header, arg_types, ret_type, nbatches, nrows, context, args,
                 result, bundledRows, emitted, default_params>>

\* Lines 62/66 and 176: evaluate is called with params=all_rows, or with
\* no params and so with its default list; eval runs the script.
RunScript ==
  /\ pc = "invoke"
  /\ LET own == header.params # <<>>
         params == IF own THEN all_rows ELSE default_params
         out == EvalScript(header.script, params)
     IN /\ ~own => Len(out.params) <= MaxShared
        /\ args' = List(params)
        /\ all_rows' = IF own THEN out.params ELSE all_rows
        /\ default_params' = IF own THEN default_params ELSE out.params
        /\ IF IsError(out.value)
             THEN /\ pc' = "failed"
                  /\ error' = [type |-> out.value.v, code |-> "UNKNOWN", msg |-> <<>>]
                  /\ UNCHANGED result
             ELSE /\ pc' = "encode"
                  /\ result' = out.value
                  /\ UNCHANGED error
  /\ UNCHANGED <<header, arg_types, ret_type, nbatches, nrows, stream_ended,
                 context, bundledRows, emitted>>

\* Lines 179-188: the result becomes a BundledRows.
Encode ==
  /\ pc = "encode"
  /\ LET b == Bundle(result, ret_type)
     IN IF IsError(b)
          THEN /\ pc' = "failed"
               /\ error' = [type |-> b.v, code |-> "UNKNOWN", msg |-> <<>>]
               /\ UNCHANGED bundledRows
          ELSE /\ pc' = "yield"
               /\ bundledRows' = b.v
               /\ UNCHANGED error
  /\ UNCHANGED <<header, arg_types, ret_type, all_rows, nbatches, nrows,
                 stream_ended, context, args, result, emitted, default_params>>

\* Lines 62/66: the generator yields what evaluate returned.
Yield ==
  /\ pc = "yield"
  /\ emitted' = Append(emitted, bundledRows)
  /\ pc' = "suspended"
  /\ UNCHANGED <<header, arg_types, ret_type, all_rows, nbatches, nrows,
                 stream_ended, context, error, args, result, bundledRows,
                 default_params>>

\* The generator is resumed and runs off its end.
Finish ==
  /\ pc = "suspended"
  /\ pc' = "done"
  /\ UNCHANGED <<header, arg_types, ret_type, all_rows, nbatches, nrows,
                 stream_ended, context, error, args, result, bundledRows,
                 emitted, default_params>>

\* The server calls EvaluateScript with a request's header.
Call(h) ==
  /\ pc = "idle"
  /\ header' = h
  /\ pc' = "start"
  /\ UNCHANGED <<arg_types, ret_type, all_rows, nbatches, nrows, stream_ended,
                 context, error, args, result, bundledRows, emitted,
                 default_params>>

\* The invocation is over and its frame, context and output are dropped;
\* the default list belongs to the function and stays.
Return ==
  /\ pc \in {"done", "failed"}
  /\ header' = NoHeader
  /\ pc' = "idle"
  /\ arg_types' = "unset"
  /\ ret_type' = "unset"
  /\ all_rows' = <<>>
  /\ nbatches' = 0
  /\ nrows' = 0
  /\ stream_ended' = FALSE
  /\ context' = NoContext
  /\ error' = NoError
  /\ args' = Unbound
  /\ result' = Unbound
  /\ bundledRows' = <<>>
  /\ emitted' = <<>>
  /\ UNCHANGED default_params

Next ==
  \/ \E h \in Headers : Call(h)
  \/ Classify
  \/ \E k \in 0..MaxBatchRows : ReceiveBatch(k)
  \/ Transpose
  \/ RunScript
  \/ Encode
  \/ Yield
  \/ Finish
  \/ Return

Spec == Init /\ [][Next]_vars

\* ------------------------------------------ the encoder on every result
\* What a script can return: a string or a number, or a list of rows, each
\* a string, a number or a list of strings and numbers.
Cells(r, c) == {Str(10 * r + c), Num(10 * r + c)}

RECURSIVE CellSeqs(_, _)
CellSeqs(r, n) ==
  IF n = 0 THEN {<<>>}
  ELSE {Append(s, x) : s \in CellSeqs(r, n - 1), x \in Cells(r, n)}

ResultRows(r) ==
  Cells(r, 0) \cup {List(s) : s \in UNION {CellSeqs(r, n) : n \in 0..MaxResultCols}}

RECURSIVE RowSeqs(_)
RowSeqs(n) ==
  IF n = 0 THEN {<<>>}
  ELSE {Append(s, x) : s \in RowSeqs(n - 1), x \in ResultRows(n)}

Results ==
  Cells(0, 1) \cup {List(s) : s \in UNION {RowSeqs(n) : n \in 0..MaxResultRows}}

\* An invocation without parameters whose script has just returned: line
\* 176 is done, with any result and any declared return type.
InitEncode ==
  /\ \E rt \in WireKinds :
       /\ header = [params |-> <<>>, returnType |-> rt, script |-> "(any)"]
       /\ ret_type = get_return_type(rt)
  /\ result \in Results
  /\ pc = "encode"
  /\ arg_types = "Empty"
  /\ all_rows = <<>>
  /\ nbatches = 0
  /\ nrows = 0
  /\ stream_ended = FALSE
  /\ context = NoContext
  /\ error = NoError
  /\ args = List(<<>>)
  /\ bundledRows = <<>>
  /\ emitted = <<>>
  /\ default_params = <<>>

NextEncode ==
  \/ Encode
  \/ Yield
  \/ Finish

SpecEncode == InitEncode /\ [][NextEncode]_vars

\* ------------------------------------------------------------- claims
Declared == header.params
Classified == pc \notin {"idle", "start"}
Called == args # Unbound
Emitting == pc \in {"yield", "suspended", "done"}

\* The textual (numeric) fields of the rows received at position i, in the
\* order the rows arrived.
StrColumn(i) == List([m \in 1..nrows |-> InputDual(m, i).strData])
NumColumn(i) == List([m \in 1..nrows |-> InputDual(m, i).numData])

\* C1: for declared kinds drawn from {String, Numeric, Dual}, the
\* classification is Empty iff there are none, Mixed iff two differ or all
\* are Dual, String iff all are String, Numeric iff all are Numeric, and it
\* is never Undefined.
C1_Classification ==
  (Classified /\ \A i \in 1..Len(Declared) : Declared[i] \in Kinds) =>
    LET n == Len(Declared)
        uniform(k) == n > 0 /\ \A i \in 1..n : Declared[i] = k
    IN /\ arg_types = "Empty" <=> n = 0
       /\ arg_types = "Mixed" <=>
            \/ \E i, j \in 1..n : Declared[i] # Declared[j]
            \/ uniform("DUAL")
       /\ arg_types = "String" <=> uniform("STRING")
       /\ arg_types = "Numeric" <=> uniform("NUMERIC")
       /\ arg_types # "Undefined"

C1_Witness ==
  /\ pc = "collect"
  /\ Declared = <<"DUAL", "DUAL">>
  /\ arg_types = "Mixed"

\* C2: with N >= 1 declared parameters and M >= 0 rows of N duals each, the
\* evaluator is handed exactly N columns: of length M under String and
\* Numeric; under Mixed of length M where String or Numeric is declared,
\* and two columns of length M where Dual is declared.
C2_ColumnShapes ==
  (Called /\ Declared # <<>> /\ arg_types \in {"String", "Numeric", "Mixed"}) =>
    /\ Len(args.v) = Len(Declared)
    /\ \A i \in 1..Len(Declared) :
         LET col == args.v[i]
         IN IF arg_types = "Mixed" /\ Declared[i] = "DUAL"
              THEN /\ Len(col.v) = 2
                   /\ Len(col.v[1].v) = nrows
                   /\ Len(col.v[2].v) = nrows
            ELSE IF arg_types = "Mixed" /\ Declared[i] \notin Kinds
              THEN TRUE
            ELSE Len(col.v) = nrows

\* C3: with parameters declared and an Undefined classification, whatever
\* the stream holds, the invocation fails with the invalid-argument error:
\* the evaluator is never called and nothing is emitted.
C3_UndefinedAlwaysFails ==
  (Classified /\ Declared # <<>> /\ arg_types = "Undefined") =>
    /\ ~Called
    /\ emitted = <<>>
    /\ stream_ended => (pc = "failed" /\ error.code = "INVALID_ARGUMENT")

\* C4: an invocation emits at most one RowBatch; one that completes emits
\* exactly one, however many batches came in; with parameters declared it
\* is emitted only once the request stream is exhausted; one that fails
\* emits none.
C4_OneBatch ==
  /\ Len(emitted) <= 1
  /\ pc = "done" => Len(emitted) = 1
  /\ pc = "failed" => emitted = <<>>
  /\ (emitted # <<>> /\ Declared # <<>>) => stream_ended

C4_Witness ==
  /\ pc = "done"
  /\ nbatches = 2
  /\ nrows >= 2
  /\ Len(emitted) = 1

\* C5: a change one invocation's script makes to its args container is
\* never seen by the script of another invocation: a script called without
\* parameters finds args empty.
C5_ArgsIsolated ==
  (Called /\ Declared = <<>>) => args = List(<<>>)

\* C6: under a String or Numeric return type the emitted RowBatch has one
\* row per element of the result, in order (one row for a string or a
\* number), each row one Dual per value of the element, in order (one for a
\* string or a number), and each Dual has only its textual field set under
\* String, only its numeric field under Numeric.
C6_Encoding ==
  (emitted # <<>> /\ ret_type \in {"String", "Numeric"}) =>
    LET scalar(x) == x.t \in {"str", "num"}
        rows == IF scalar(result) THEN <<result>> ELSE result.v
        batch == emitted[1]
    IN /\ Len(batch) = Len(rows)
       /\ \A r \in 1..Len(rows) :
            LET cols == IF scalar(rows[r]) THEN <<rows[r]>> ELSE rows[r].v
            IN /\ Len(batch[r]) = Len(cols)
               /\ \A c \in 1..Len(cols) :
                    batch[r][c] =
                      IF ret_type = "String"
                        THEN [numData |-> Num(0), strData |-> cols[c]]
                        ELSE [numData |-> cols[c], strData |-> Str(0)]

C6_Witness ==
  /\ pc = "done"
  /\ ret_type = "String"
  /\ result = List(<<Str(10), List(<<Str(21), Str(22)>>)>>)
  /\ Len(emitted) = 1

\* C7: a non-empty declaration holding a kind outside {String, Numeric,
\* Dual} is classified Undefined, no row of it is extracted, and the
\* invocation aborts with the invalid-argument status on the context.
C7_OutOfEnumUndefined ==
  (Classified /\ \E i \in 1..Len(Declared) : Declared[i] \notin Kinds) =>
    /\ arg_types = "Undefined"
    /\ nrows = 0
    /\ pc = "failed" => context.code = "INVALID_ARGUMENT"

\* C8: when get_arguments raises for an Undefined classification, the
\* context's code is invalid-argument, its details are a message naming
\* the classification, and the fault carries the same message.
C8_FaultNamesClassification ==
  (error.type = "RpcError") =>
    /\ context.code = "INVALID_ARGUMENT"
    /\ context.details = error.msg
    /\ \E k \in 1..Len(context.details) : context.details[k] = Render(arg_types)

\* C9: under Mixed and with at least one row, the argument at position i
\* follows position i's own kind: String the rows' textual fields, Numeric
\* their numeric fields, Dual the pair [numeric list, textual list], each
\* in the order the rows arrived.
C9_MixedByPosition ==
  (Called /\ arg_types = "Mixed" /\ nrows >= 1) =>
    \A i \in 1..Len(Declared) :
      Declared[i] \in Kinds =>
        /\ i <= Len(args.v)
        /\ args.v[i] =
             IF Declared[i] = "STRING" THEN StrColumn(i)
             ELSE IF Declared[i] = "NUMERIC" THEN NumColumn(i)
             ELSE List(<<NumColumn(i), StrColumn(i)>>)

\* C10, as claimed: under a Dual or Undefined return type encoding raises
\* for every result and nothing is emitted.
C10_AlwaysRaises ==
  (ret_type \in {"Dual", "Undefined"} /\ pc # "encode") =>
    (pc = "failed" /\ emitted = <<>>)

\* C10, amended: under a Dual or Undefined return type encoding raises and
\* nothing is emitted for every result but the empty sequence, for which
\* nothing raises and a RowBatch without rows is emitted.
C10_RaisesUnlessEmpty ==
  (ret_type \in {"Dual", "Undefined"} /\ pc # "encode") =>
    IF result = List(<<>>)
      THEN Emitting /\ bundledRows = <<>> /\ error = NoError
      ELSE pc = "failed" /\ emitted = <<>> /\ error.type = "UnboundLocalError"

C10_Witness ==
  /\ pc = "failed"
  /\ ret_type = "Dual"
  /\ result = List(<<Str(10), List(<<>>)>>)
  /\ error.type = "UnboundLocalError"

====
